---- MODULE Spec2Model ----
\* Model of the trovo chat socket client (src/src/chat/socket.rs): the
\* connect handshake, the inbound actor (SocketMessagesReader), the outbound
\* actor (SocketMessagesWriter), the two mpsc queues between them and the
\* consumer, the one-shot handshake signal and the shared cancellation token.
EXTENDS Integers, Sequences, FiniteSets

\* ---------------------------------------------------------------- bounds
\* Heartbeat ticks explored per connection (ping.iteration is a u64 counter).
MaxTicks == 3
\* Chat events the peer sends over one connection.
MaxEvents == 3
\* Largest number of chats carried by one CHAT frame.
MaxBatch == 2
\* Calls of close() counted on one handle.
MaxCloses == 2
\* Capacity of the event queue.  The source uses 32 (socket.rs:17); the model
\* explores a smaller capacity so that a full queue is reached.
CHAT_MESSAGES_BUFFER == 2

\* ------------------------------------------------------- program constants
\* mpsc::channel(1) for the command queue.
SOCKET_MESSAGES_BUFFER == 1
\* DEFAULT_PING_INTERVAL, in seconds.
DEFAULT_PING_INTERVAL == 30
\* "Are we missing 2 pongs?"
MISSED_PONGS == 2

\* The fixed handshake nonce, "authenticate".
AUTH_NONCE == <<"a">>
\* A nonce that is not the handshake nonce.
OTHER_NONCE == <<"o">>

\* ------------------------------------------------- nonce <-> counter (u64)
Digits == <<"0", "1", "2", "3", "4", "5", "6", "7", "8", "9">>

IsDigit(c) == \E i \in 1..10 : Digits[i] = c

DigitVal(c) == (CHOOSE i \in 1..10 : Digits[i] = c) - 1

RECURSIVE DigitsValue(_, _)
\* Accumulate the decimal value of a sequence of digit characters.
DigitsValue(s, acc) ==
    IF s = <<>> THEN acc
    ELSE DigitsValue(Tail(s), acc * 10 + DigitVal(Head(s)))

\* str::parse::<u64>: an optional leading "+", then one or more decimal
\* digits; anything else (empty, "-", a non-digit) is an error.  The values of
\* the model stay far below 2^64, so the PosOverflow error is not reachable.
ParseU64(s) ==
    LET body == IF s # <<>> /\ Head(s) = "+" THEN Tail(s) ELSE s
    IN  IF body = <<>> \/ \E i \in 1..Len(body) : ~IsDigit(body[i])
        THEN [ok |-> FALSE, v |-> 0]
        ELSE [ok |-> TRUE, v |-> DigitsValue(body, 0)]

RECURSIVE U64ToString(_)
\* u64::to_string: decimal digits, most significant first, no sign.
U64ToString(n) ==
    IF n < 10 THEN <<Digits[n + 1]>>
    ELSE Append(U64ToString(n \div 10), Digits[(n % 10) + 1])

\* ------------------------------------------------------------ wire format
\* A JSON object as far as serde looks at it: the "type" tag, which of the
\* fields "nonce" and "data" are present, and their contents.
Payload(tag, fields, nonce, gap, chats) ==
    [tag |-> tag, fields |-> fields, nonce |-> nonce, gap |-> gap, chats |-> chats]

\* Nonces a PONG of the peer may carry.
PongNonces ==
    { <<"1">>, <<"2">>, <<"+", "3">>, <<"-", "2">> }

\* PongMessageData.gap values the peer may advise.
Gaps == {10, 20}

\* Well-formed objects of the five tags.
GoodPayloads ==
    { Payload("RESPONSE", {"nonce"}, n, 0, 0) : n \in {AUTH_NONCE, OTHER_NONCE} }
    \cup { Payload("PONG", {"nonce", "data"}, n, g, 0) : n \in PongNonces, g \in Gaps }
    \cup { Payload("CHAT", {"data"}, <<>>, 0, k) : k \in 0..MaxBatch }
    \cup { Payload("AUTH", {"nonce", "data"}, AUTH_NONCE, 0, 0),
           Payload("PING", {"nonce"}, <<"1">>, 0, 0) }

\* Objects with an unknown tag, a tag in the wrong case, a missing field, or a
\* field of the wrong type ("data: string" is a data field that is a string
\* where PongMessageData is expected).
BadPayloads ==
    { Payload("HELLO", {"nonce"}, <<"1">>, 0, 0),
      Payload("response", {"nonce"}, AUTH_NONCE, 0, 0),
      Payload("RESPONSE", {}, <<>>, 0, 0),
      Payload("PONG", {"nonce"}, <<"1">>, 0, 0),
      Payload("PONG", {"nonce", "data: string"}, <<"1">>, 0, 0) }

Payloads == GoodPayloads \cup BadPayloads

\* The objects the peer also sends as binary frames.
BinaryPayloads ==
    { Payload("RESPONSE", {"nonce"}, AUTH_NONCE, 0, 0),
      Payload("PONG", {"nonce", "data"}, <<"1">>, 10, 0),
      Payload("CHAT", {"data"}, <<>>, 0, 1),
      Payload("HELLO", {"nonce"}, <<"1">>, 0, 0) }

NoPayload == Payload("", {}, <<>>, 0, 0)

\* A ChatSocketMessage value, or the serde error.
SocketMessage(type, nonce, gap, chats) ==
    [type |-> type, nonce |-> nonce, gap |-> gap, chats |-> chats]

DecodeError == SocketMessage("DecodeError", <<>>, 0, 0)

\* serde_json::from_str / from_slice into ChatSocketMessage: internally tagged
\* by "type" with the variant names in upper case; a field the variant needs
\* and the object lacks is an error, as is any other tag.
Decode(p) ==
    CASE p.tag = "AUTH" /\ {"nonce", "data"} \subseteq p.fields ->
            SocketMessage("Auth", p.nonce, 0, 0)
      [] p.tag = "RESPONSE" /\ "nonce" \in p.fields ->
            SocketMessage("Response", p.nonce, 0, 0)
      [] p.tag = "PING" /\ "nonce" \in p.fields ->
            SocketMessage("Ping", p.nonce, 0, 0)
      [] p.tag = "PONG" /\ {"nonce", "data"} \subseteq p.fields ->
            SocketMessage("Pong", p.nonce, p.gap, 0)
      [] p.tag = "CHAT" /\ "data" \in p.fields ->
            SocketMessage("Chat", <<>>, 0, p.chats)
      [] OTHER -> DecodeError

\* What the transport's read half can yield: tungstenite::Message variants, or
\* a transport error.
Frame(kind, payload, reason) == [kind |-> kind, payload |-> payload, reason |-> reason]

Frames ==
    { Frame("Text", p, "") : p \in Payloads }
    \cup { Frame("Binary", p, "") : p \in BinaryPayloads }
    \cup { Frame("Ping", NoPayload, ""), Frame("Pong", NoPayload, ""),
           Frame("Close", NoPayload, ""), Frame("Close", NoPayload, "bye"),
           Frame("Error", NoPayload, "") }

NoFrame == Frame("None", NoPayload, "")

\* Items of the event queue: Result<ChatMessage, ChatMessageStreamError>.
OkItem(id) == [ok |-> TRUE, chat |-> id, err |-> "", reason |-> ""]

ErrItem(err, reason) == [ok |-> FALSE, chat |-> 0, err |-> err, reason |-> reason]

\* ------------------------------------------------------------------ state
VARIABLES
    connPc,          \* position of ChatMessageStream::connect
    connResult,      \* what connect returned
    cancelled,       \* the shared CancellationToken
    oneshot,         \* the handshake oneshot channel: "empty", "value", "closed"
    readerPc,        \* position of the inbound actor's task
    authSender,      \* reader.auth.1: "Some" or "None"
    ping,            \* reader.ping: interval, iteration, acknowledged
    batch,           \* chats of the CHAT frame still to deliver
    readerErr,       \* the error the reader's task is about to report
    streamEnded,     \* the transport's read half has yielded None
    produced,        \* number of chat events the peer has sent so far
    handled,         \* observer: the frame the reader took in the latest step
    observe,         \* observer: whether handled is being recorded
    socket_messages, \* the command queue (capacity 1)
    socketRxAlive,   \* socket_messages_receiver not dropped
    chat_messages,   \* the event queue
    chatRxAlive,     \* chat_messages_receiver not dropped
    writerPc,        \* position of the outbound actor's task
    writerMsg,       \* the message the writer is writing
    writerErr,       \* the error the writer's task is about to report
    written,         \* messages written to the transport's write half
    handle,          \* the ChatMessageStream: "none", "live", "dropped"
    received,        \* items the consumer got from next()
    sawNone,         \* next() has returned None
    countCloses,     \* observer: whether the calls of close() are being counted
    closeCalls,      \* observer: number of calls of close() so far
    cleanCancel,     \* observer: the consumer cancelled before any failure
    timed,           \* whether the time the sleep of line 166 takes is modelled
    sleepLeft        \* seconds left of the sleep the reader's select! awaits

vars ==
    << connPc, connResult, cancelled, oneshot, readerPc, authSender, ping, batch,
       readerErr, streamEnded, produced, handled, observe, socket_messages, socketRxAlive,
       chat_messages, chatRxAlive, writerPc, writerMsg, writerErr, written,
       handle, received, sawNone, countCloses, closeCalls, cleanCancel, timed,
       sleepLeft >>

connVars == << connPc, connResult >>
readerVars == << readerPc, authSender, ping, batch, readerErr >>
writerVars == << writerPc, writerMsg, writerErr >>
consumerVars == << handle, received, sawNone >>
closeVars == << countCloses, closeCalls, cleanCancel >>

NoMsg == SocketMessage("None", <<>>, 0, 0)

NoErr == ErrItem("", "")

\* Ping::default()
DefaultPing == [interval |-> DEFAULT_PING_INTERVAL, iteration |-> 0, acknowledged |-> 0]

\* The state before connect is called: nothing exists yet.
Created ==
    /\ connPc = "connect_async"
    /\ connResult = "none"
    /\ cancelled = FALSE
    /\ oneshot = "empty"
    /\ readerPc = "unspawned"
    /\ authSender = "None"
    /\ ping = DefaultPing
    /\ batch = <<>>
    /\ readerErr = NoErr
    /\ streamEnded = FALSE
    /\ produced = 0
    /\ socket_messages = <<>>
    /\ socketRxAlive = FALSE
    /\ chat_messages = <<>>
    /\ chatRxAlive = FALSE
    /\ writerPc = "unspawned"
    /\ writerMsg = NoMsg
    /\ writerErr = NoErr
    /\ written = <<>>
    /\ handle = "none"
    /\ received = <<>>
    /\ sawNone = FALSE

\* No call of close() has been made.
NoCloses ==
    /\ closeCalls = 0
    /\ cleanCancel = FALSE

\* A behaviour without the observers.
Init ==
    /\ Created
    /\ handled = NoFrame
    /\ observe = FALSE
    /\ NoCloses
    /\ countCloses = FALSE
    /\ timed = FALSE
    /\ sleepLeft = 0

\* The same program, observed: handled records each frame the reader takes.
InitObserved ==
    /\ Created
    /\ handled = NoFrame
    /\ observe = TRUE
    /\ NoCloses
    /\ countCloses = FALSE
    /\ timed = FALSE
    /\ sleepLeft = 0

\* The same program with the consumer's calls observed: closeCalls counts the
\* calls of close(), cleanCancel records a cancellation by the consumer that
\* no failure preceded.
InitCloses ==
    /\ Created
    /\ handled = NoFrame
    /\ observe = FALSE
    /\ NoCloses
    /\ countCloses = TRUE
    /\ timed = FALSE
    /\ sleepLeft = 0

\* The same program with the sleep of line 166 taking its time: sleepLeft is
\* what is left of it.  In the other behaviours the sleep may end at any moment.
InitTimed ==
    /\ Created
    /\ handled = NoFrame
    /\ observe = FALSE
    /\ NoCloses
    /\ countCloses = FALSE
    /\ timed = TRUE
    /\ sleepLeft = 0

\* A step that takes no frame from the transport.
NothingHandled ==
    /\ handled' = NoFrame
    /\ UNCHANGED << observe, timed >>

\* Line 166: each call of next() makes a new sleep(self.ping.interval); the one
\* of the call before is dropped with its select!.
NewSleep ==
    sleepLeft' = (IF timed /\ readerPc' = "select" THEN ping'.interval ELSE 0)

\* A step that is neither a frame taken nor a call of the consumer's.
NothingObserved ==
    /\ NothingHandled
    /\ UNCHANGED << closeVars, sleepLeft >>

\* A step of the reader's task that is neither a frame taken nor a call of the
\* consumer's: where it ends in select!, next() has been called anew.
ReaderPolled ==
    /\ NothingHandled
    /\ UNCHANGED closeVars
    /\ NewSleep

\* The reader's task is running (it owns its senders and its token clone).
ReaderAlive == readerPc \in {"select", "ping_send", "chat_send", "err_send"}

\* The writer's task is running.
WriterAlive == writerPc \in {"select", "writing", "err_send"}

\* As if the reader held the only Sender of the event queue.
ChatSendersAliveReaderOnly == ReaderAlive

\* Some Sender of the event queue exists: the reader's clone, and the clone
\* connect keeps until it moves it into the writer.
ChatSendersAlive ==
    ReaderAlive \/ WriterAlive \/ connPc \in {"send_auth", "await_auth"}

\* ---------------------------------------------------------------- connect
\* connect_async(...).await? fails: nothing was created.
ConnectAsyncFail ==
    /\ connPc = "connect_async"
    /\ connPc' = "returned"
    /\ connResult' = "WebSocket"
    /\ NothingObserved
    /\ UNCHANGED << cancelled, oneshot, readerVars, streamEnded, produced,
                    socket_messages, socketRxAlive, chat_messages, chatRxAlive,
                    writerVars, written, consumerVars >>

\* Lines 33-50: the connection opens, the channels are created and the reader
\* is spawned with auth = (nonce, Some(sender)) and ping = Ping::default().
ConnectOpen ==
    /\ connPc = "connect_async"
    /\ connPc' = "send_auth"
    /\ readerPc' = "select"
    /\ authSender' = "Some"
    /\ ping' = DefaultPing
    /\ socketRxAlive' = TRUE
    /\ chatRxAlive' = TRUE
    /\ UNCHANGED << connResult, cancelled, oneshot, batch, readerErr, streamEnded,
                    produced, socket_messages, chat_messages, writerVars, written,
                    consumerVars >>
    /\ ReaderPolled

\* connect returns an error: its locals are dropped (the write half, both
\* receivers, its clone of the event sender, the oneshot receiver).  Dropping
\* its CancellationToken clone does not cancel the token.
ConnectFails(result) ==
    /\ connPc' = "returned"
    /\ connResult' = result
    /\ socketRxAlive' = FALSE
    /\ socket_messages' = <<>>
    /\ chatRxAlive' = FALSE
    /\ chat_messages' = <<>>
    /\ NothingObserved
    /\ UNCHANGED << cancelled, oneshot, readerVars, streamEnded, produced,
                    writerVars, written, consumerVars >>

\* A connect that spawns the writer together with the write of the Auth message.
SendAuthOkSpawnsWriter ==
    /\ connPc = "send_auth"
    /\ connPc' = "await_auth"
    /\ written' = Append(written, SocketMessage("Auth", AUTH_NONCE, 0, 0))
    /\ writerPc' = "select"
    /\ NothingObserved
    /\ UNCHANGED << connResult, cancelled, oneshot, readerVars, streamEnded,
                    produced, socket_messages, socketRxAlive, chat_messages,
                    chatRxAlive, writerMsg, writerErr, consumerVars >>

\* Lines 52-56: the Auth message is written to the transport by connect itself.
SendAuthOk ==
    /\ connPc = "send_auth"
    /\ connPc' = "await_auth"
    /\ written' = Append(written, SocketMessage("Auth", AUTH_NONCE, 0, 0))
    /\ NothingObserved
    /\ UNCHANGED << connResult, cancelled, oneshot, readerVars, streamEnded,
                    produced, socket_messages, socketRxAlive, chat_messages,
                    chatRxAlive, writerVars, consumerVars >>

\* Line 56: writer.send(...).await? fails.
SendAuthFail ==
    /\ connPc = "send_auth"
    /\ ConnectFails("WebSocket")

\* Mutant of HandshakeResult: a dropped sender is taken for success.
HandshakeResultIgnoringDrop(state) == "Ok"

\* Lines 58-60: auth_response_receiver.await.map_err(|_| SocketClosed)??, once
\* the oneshot has resolved: Ok(()) was sent, or the sender was dropped.
HandshakeResult(state) == IF state = "value" THEN "Ok" ELSE "SocketClosed"

\* Lines 58-73: the oneshot holds Ok(()): the writer is spawned with the
\* command receiver and connect's event sender, and the handle is returned.
AwaitAuthOk ==
    /\ connPc = "await_auth"
    /\ oneshot # "empty"
    /\ HandshakeResult(oneshot) = "Ok"
    /\ connPc' = "returned"
    /\ connResult' = "Ok"
    /\ writerPc' = "select"
    /\ handle' = "live"
    /\ NothingObserved
    /\ UNCHANGED << cancelled, oneshot, readerVars, streamEnded, produced,
                    socket_messages, socketRxAlive, chat_messages, chatRxAlive,
                    writerMsg, writerErr, written, received, sawNone >>

\* Lines 58-60: the oneshot sender was dropped without a value.
AwaitAuthClosed ==
    /\ connPc = "await_auth"
    /\ oneshot # "empty"
    /\ HandshakeResult(oneshot) # "Ok"
    /\ ConnectFails(HandshakeResult(oneshot))

\* ---------------------------------------------------------- inbound actor
\* Drop for SocketMessagesReader, and the drop of its fields, when its task
\* ends (by break or by unwinding): the token is cancelled and the oneshot
\* sender, if it was never used, is dropped.
ReaderDropped ==
    /\ cancelled' = TRUE
    /\ oneshot' = IF authSender = "Some" THEN "closed" ELSE oneshot
    /\ authSender' = "None"

\* select! branch 1 (lines 163-165): the token is cancelled -> Stop -> break.
ReaderCancelled ==
    /\ readerPc = "select"
    /\ cancelled
    /\ readerPc' = "done"
    /\ ReaderDropped
    /\ UNCHANGED << connVars, ping, batch, readerErr, streamEnded, produced,
                    socket_messages, socketRxAlive, chat_messages, chatRxAlive,
                    writerVars, written, consumerVars >>
    /\ ReaderPolled

\* Line 170: (iteration - acknowledged) > 2 on u64 operands, for
\* iteration >= acknowledged.
MissedTooMany(iteration, acknowledged) == iteration - acknowledged > MISSED_PONGS

\* Line 170 for any operands.  With iteration < acknowledged the u64
\* subtraction overflows: a build with overflow checks panics, a build without
\* them wraps to 2^64 - (acknowledged - iteration), which exceeds 2 for every
\* value of the model.  Both builds are outcomes.
TickOutcomes(iteration, acknowledged) ==
    IF iteration < acknowledged THEN {"panic", "timeout"}
    ELSE IF MissedTooMany(iteration, acknowledged) THEN {"timeout"}
    ELSE {"ping"}

\* select! branch 2 (lines 166-175): the sleep elapsed.
ReaderTick ==
    /\ readerPc = "select"
    /\ sleepLeft = 0
    /\ ping.iteration < MaxTicks
    /\ ping' = [ping EXCEPT !.iteration = ping.iteration + 1]
    /\ \E out \in TickOutcomes(ping.iteration + 1, ping.acknowledged) :
          \/ /\ out = "panic"
             /\ readerPc' = "panicked"
             /\ ReaderDropped
             /\ UNCHANGED readerErr
          \/ /\ out = "timeout"
             /\ readerPc' = "err_send"
             /\ readerErr' = ErrItem("PingTimeout", "")
             /\ UNCHANGED << cancelled, oneshot, authSender >>
          \/ /\ out = "ping"
             /\ readerPc' = "ping_send"
             /\ UNCHANGED << cancelled, oneshot, authSender, readerErr >>
    /\ UNCHANGED << connVars, batch, streamEnded, produced, socket_messages,
                    socketRxAlive, chat_messages, chatRxAlive, writerVars, written,
                    consumerVars >>
    /\ ReaderPolled

\* select! branch 2 (line 166) still pending: ten more seconds of the sleep
\* pass with no branch of the select! completing.
SleepElapses ==
    /\ readerPc = "select"
    /\ sleepLeft > 0
    /\ sleepLeft' = (IF sleepLeft > 10 THEN sleepLeft - 10 ELSE 0)
    /\ NothingHandled
    /\ UNCHANGED << connVars, cancelled, oneshot, readerVars, streamEnded, produced,
                    socket_messages, socketRxAlive, chat_messages, chatRxAlive,
                    writerVars, written, consumerVars, closeVars >>

\* select! branch 2 (lines 166-180): the sleep, pending or completing.
ReaderSleep ==
    /\ readerPc = "select"
    /\ \/ SleepElapses
       \/ ReaderTick

\* Mutant of PingMessage: the Ping is built from the counter as it was before
\* the increment of line 168.
PingMessageBeforeIncrement(iteration) ==
    SocketMessage("Ping", U64ToString(iteration - 1), 0, 0)

\* Line 174: the Ping for the current iteration.
PingMessage(iteration) == SocketMessage("Ping", U64ToString(iteration), 0, 0)

\* A reader that reports the closed command queue as an error.
ReaderPingSendErrs ==
    /\ readerPc = "ping_send"
    /\ \/ /\ socketRxAlive
          /\ Len(socket_messages) < SOCKET_MESSAGES_BUFFER
          /\ socket_messages' = Append(socket_messages, PingMessage(ping.iteration))
          /\ readerPc' = "select"
          /\ UNCHANGED readerErr
       \/ /\ ~socketRxAlive
          /\ readerPc' = "err_send"
          /\ readerErr' = ErrItem("SocketClosed", "")
          /\ UNCHANGED socket_messages
    /\ UNCHANGED << connVars, cancelled, oneshot, authSender, ping, batch,
                    streamEnded, produced, socketRxAlive, chat_messages,
                    chatRxAlive, writerVars, written, consumerVars >>
    /\ ReaderPolled

\* A reader that uses try_send: with the command queue full the Ping is
\* dropped and the reader continues.
ReaderPingSendTrySend ==
    /\ readerPc = "ping_send"
    /\ \/ /\ socketRxAlive
          /\ socket_messages' =
                (IF Len(socket_messages) < SOCKET_MESSAGES_BUFFER
                 THEN Append(socket_messages, PingMessage(ping.iteration))
                 ELSE socket_messages)
          /\ readerPc' = "select"
          /\ UNCHANGED << cancelled, oneshot, authSender >>
       \/ /\ ~socketRxAlive
          /\ readerPc' = "done"
          /\ ReaderDropped
          /\ UNCHANGED socket_messages
    /\ UNCHANGED << connVars, ping, batch, readerErr, streamEnded, produced,
                    socketRxAlive, chat_messages, chatRxAlive, writerVars, written,
                    consumerVars >>
    /\ ReaderPolled

\* Lines 176-179: socket_messages_sender.send(msg).await.  It completes when
\* the queue has room (Continue) or the receiver is gone (Stop); otherwise the
\* reader stays here.
ReaderPingSend ==
    /\ readerPc = "ping_send"
    /\ \/ /\ socketRxAlive
          /\ Len(socket_messages) < SOCKET_MESSAGES_BUFFER
          /\ socket_messages' = Append(socket_messages, PingMessage(ping.iteration))
          /\ readerPc' = "select"
          /\ UNCHANGED << cancelled, oneshot, authSender >>
       \/ /\ ~socketRxAlive
          /\ readerPc' = "done"
          /\ ReaderDropped
          /\ UNCHANGED socket_messages
    /\ UNCHANGED << connVars, ping, batch, readerErr, streamEnded, produced,
                    socketRxAlive, chat_messages, chatRxAlive, writerVars, written,
                    consumerVars >>
    /\ ReaderPolled

\* Mutant of AuthMatches: the nonce of the Response is not compared.
AuthMatchesAnyNonce(nonce) == TRUE

\* Line 214: self.auth.0 == nonce.
AuthMatches(nonce) == AUTH_NONCE = nonce

\* Mutant of PongUpdate: `>=` for `>`, so a duplicate Pong is taken again.
PongUpdateDuplicates(p, m) ==
    LET r == ParseU64(m.nonce)
    IN  IF ~r.ok THEN p
        ELSE IF r.v >= p.acknowledged
             THEN [p EXCEPT !.acknowledged = r.v, !.interval = m.gap]
             ELSE p

\* Mutant of PongUpdate: the advised gap is not adopted.
PongUpdateKeepsInterval(p, m) ==
    LET r == ParseU64(m.nonce)
    IN  IF ~r.ok THEN p
        ELSE IF r.v > p.acknowledged
             THEN [p EXCEPT !.acknowledged = r.v]
             ELSE p

\* Lines 222-235: the Ping state after a Pong.
PongUpdate(p, m) ==
    LET r == ParseU64(m.nonce)
    IN  IF ~r.ok THEN p
        ELSE IF r.v > p.acknowledged
             THEN [p EXCEPT !.acknowledged = r.v, !.interval = m.gap]
             ELSE p

\* Mutant of MessageOutcome: nonce.parse().unwrap() on a Pong.
MessageOutcomeUnwrap(m) ==
    CASE m.type = "Response" -> "continue"
      [] m.type = "Pong" -> IF ParseU64(m.nonce).ok THEN "continue" ELSE "panic"
      [] m.type = "Chat" -> "chat"
      [] OTHER -> "panic"

\* handle_socket_message (lines 210-251): how the match arm ends.
MessageOutcome(m) ==
    CASE m.type \in {"Response", "Pong"} -> "continue"
      [] m.type = "Chat" -> "chat"
      [] OTHER -> "panic"

\* A handle_message that skips the frames it cannot decode.
FrameOutcomeSkipsUndecodable(f) ==
    CASE f.kind = "Error" -> [to |-> "err", err |-> ErrItem("WebSocket", "")]
      [] f.kind \in {"Text", "Binary"} ->
            IF Decode(f.payload) = DecodeError
            THEN [to |-> "continue", err |-> NoErr]
            ELSE [to |-> MessageOutcome(Decode(f.payload)), err |-> NoErr]
      [] f.kind = "Close" -> [to |-> "err", err |-> ErrItem("SocketClosed", f.reason)]
      [] OTHER -> [to |-> "panic", err |-> NoErr]

\* handle_message (lines 190-208) after `msg?` of line 182: the error raised,
\* or how handle_socket_message ends; todo!() panics.
FrameOutcome(f) ==
    CASE f.kind = "Error" -> [to |-> "err", err |-> ErrItem("WebSocket", "")]
      [] f.kind \in {"Text", "Binary"} ->
            IF Decode(f.payload) = DecodeError
            THEN [to |-> "err", err |-> ErrItem("Serde", "")]
            ELSE [to |-> MessageOutcome(Decode(f.payload)), err |-> NoErr]
      [] f.kind = "Close" -> [to |-> "err", err |-> ErrItem("SocketClosed", f.reason)]
      [] OTHER -> [to |-> "panic", err |-> NoErr]

\* A Response arm in which a matching Response after the first overwrites the
\* handshake's result.
ResponseEffectOverwrites(m) ==
    IF m.type = "Response" /\ AuthMatches(m.nonce)
    THEN [sender |-> "None",
          signal |-> IF connPc \in {"send_auth", "await_auth"}
                     THEN (IF authSender = "Some" THEN "value" ELSE "closed")
                     ELSE oneshot]
    ELSE [sender |-> authSender, signal |-> oneshot]

\* Lines 213-220: on a Response with the Auth nonce the sender of the handshake
\* signal is taken, once, and the signal sent (send(..).ok(): to connect if it
\* is still there); what auth.1 and the signal are after message m.
ResponseEffect(m) ==
    IF m.type = "Response" /\ AuthMatches(m.nonce) /\ authSender = "Some"
    THEN [sender |-> "None",
          signal |-> IF connPc \in {"send_auth", "await_auth"}
                     THEN "value" ELSE oneshot]
    ELSE [sender |-> authSender, signal |-> oneshot]

\* The chats of a CHAT frame: the peer's next k events, in order.
Chats(k) == [i \in 1..k |-> produced + i]

\* select! branch 3 (lines 181-183): the transport yields frame f.
ReaderRecv(f) ==
    /\ readerPc = "select"
    /\ ~streamEnded
    /\ handled' = (IF observe THEN f ELSE NoFrame)
    /\ UNCHANGED << observe, timed, closeVars >>
    /\ LET out == FrameOutcome(f)
           m == Decode(f.payload)
       IN  \/ /\ out.to = "err"
              /\ readerPc' = "err_send"
              /\ readerErr' = out.err
              /\ UNCHANGED << cancelled, oneshot, authSender, ping, batch, produced >>
           \/ /\ out.to = "panic"
              /\ readerPc' = "panicked"
              /\ ReaderDropped
              /\ UNCHANGED << ping, batch, readerErr, produced >>
           \/ /\ out.to = "continue"
              /\ readerPc' = "select"
              /\ ping' = IF m.type = "Pong" THEN PongUpdate(ping, m) ELSE ping
              /\ authSender' = ResponseEffect(m).sender
              /\ oneshot' = ResponseEffect(m).signal
              /\ UNCHANGED << cancelled, batch, readerErr, produced >>
           \/ /\ out.to = "chat"
              /\ produced + m.chats <= MaxEvents
              /\ batch' = Chats(m.chats)
              /\ produced' = produced + m.chats
              /\ readerPc' = IF m.chats = 0 THEN "select" ELSE "chat_send"
              /\ UNCHANGED << cancelled, oneshot, authSender, ping, readerErr >>
    /\ UNCHANGED << connVars, streamEnded, socket_messages, socketRxAlive,
                    chat_messages, chatRxAlive, writerVars, written, consumerVars >>
    /\ NewSleep

\* Mutant of NextChat: the chats are taken from the back of the Vec.
NextChatFromBack(chats) == [chat |-> chats[Len(chats)], rest |-> SubSeq(chats, 1, Len(chats) - 1)]

\* Line 241: `for chat in data.chats` takes the chats front to back.
NextChat(chats) == [chat |-> Head(chats), rest |-> Tail(chats)]

\* A reader that ignores the error of a send to the event queue and goes on
\* with the rest of the batch.
ReaderChatSendSkips ==
    /\ readerPc = "chat_send"
    /\ \/ /\ chatRxAlive
          /\ Len(chat_messages) < CHAT_MESSAGES_BUFFER
          /\ chat_messages' = Append(chat_messages, OkItem(NextChat(batch).chat))
       \/ /\ ~chatRxAlive
          /\ UNCHANGED chat_messages
    /\ batch' = NextChat(batch).rest
    /\ readerPc' = IF NextChat(batch).rest = <<>> THEN "select" ELSE "chat_send"
    /\ UNCHANGED << connVars, cancelled, oneshot, authSender, ping, readerErr,
                    streamEnded, produced, socket_messages, socketRxAlive,
                    chatRxAlive, writerVars, written, consumerVars >>
    /\ ReaderPolled

\* Lines 241-246: chat_messages_sender.send(Ok(chat)).await for the next chat
\* of the batch.  It completes when the queue has room or the receiver is gone
\* (Stop); otherwise the reader stays here.
ReaderChatSend ==
    /\ readerPc = "chat_send"
    /\ \/ /\ chatRxAlive
          /\ Len(chat_messages) < CHAT_MESSAGES_BUFFER
          /\ chat_messages' = Append(chat_messages, OkItem(NextChat(batch).chat))
          /\ batch' = NextChat(batch).rest
          /\ readerPc' = IF NextChat(batch).rest = <<>> THEN "select" ELSE "chat_send"
          /\ UNCHANGED << cancelled, oneshot, authSender >>
       \/ /\ ~chatRxAlive
          /\ batch' = <<>>
          /\ readerPc' = "done"
          /\ ReaderDropped
          /\ UNCHANGED chat_messages
    /\ UNCHANGED << connVars, ping, readerErr, streamEnded, produced,
                    socket_messages, socketRxAlive, chatRxAlive, writerVars,
                    written, consumerVars >>
    /\ ReaderPolled

\* Lines 150-154: chat_messages_sender.send(Err(err)).await.ok(), then break.
ReaderErrSend ==
    /\ readerPc = "err_send"
    /\ \/ /\ chatRxAlive
          /\ Len(chat_messages) < CHAT_MESSAGES_BUFFER
          /\ chat_messages' = Append(chat_messages, readerErr)
       \/ /\ ~chatRxAlive
          /\ UNCHANGED chat_messages
    /\ readerPc' = "done"
    /\ readerErr' = NoErr
    /\ ReaderDropped
    /\ UNCHANGED << connVars, ping, batch, streamEnded, produced, socket_messages,
                    socketRxAlive, chatRxAlive, writerVars, written, consumerVars >>
    /\ ReaderPolled

\* The transport's read half yields None: the branch of line 181 is disabled.
PeerEndStream ==
    /\ readerPc # "unspawned"
    /\ ~streamEnded
    /\ streamEnded' = TRUE
    /\ NothingObserved
    /\ UNCHANGED << connVars, cancelled, oneshot, readerVars, produced,
                    socket_messages, socketRxAlive, chat_messages, chatRxAlive,
                    writerVars, written, consumerVars >>

\* --------------------------------------------------------- outbound actor
\* Drop for SocketMessagesWriter, and the drop of its fields, when its task
\* ends: the token is cancelled and the command receiver is dropped.
WriterDropped ==
    /\ cancelled' = TRUE
    /\ socketRxAlive' = FALSE
    /\ socket_messages' = <<>>

\* select! branch 1 (lines 292-294): the token is cancelled -> Stop -> break.
WriterCancelled ==
    /\ writerPc = "select"
    /\ cancelled
    /\ writerPc' = "done"
    /\ WriterDropped
    /\ NothingObserved
    /\ UNCHANGED << connVars, oneshot, readerVars, streamEnded, produced,
                    chat_messages, chatRxAlive, writerMsg, writerErr, written,
                    consumerVars >>

\* A recv that reads the oldest message and leaves it in the queue.
WriterRecvPeek ==
    /\ writerPc = "select"
    /\ socket_messages # <<>>
    /\ writerMsg' = Head(socket_messages)
    /\ writerPc' = "writing"
    /\ NothingObserved
    /\ UNCHANGED << connVars, cancelled, oneshot, readerVars, streamEnded, produced,
                    socket_messages, socketRxAlive, chat_messages, chatRxAlive,
                    writerErr, written, consumerVars >>

\* select! branch 2 (line 295): socket_messages_receiver.recv() yields the
\* oldest message of the command queue.
WriterRecv ==
    /\ writerPc = "select"
    /\ socket_messages # <<>>
    /\ writerMsg' = Head(socket_messages)
    /\ socket_messages' = Tail(socket_messages)
    /\ writerPc' = "writing"
    /\ NothingObserved
    /\ UNCHANGED << connVars, cancelled, oneshot, readerVars, streamEnded, produced,
                    socketRxAlive, chat_messages, chatRxAlive, writerErr, written,
                    consumerVars >>

\* Lines 310-312 and 297: the message is written to the transport -> Continue.
WriterWriteOk ==
    /\ writerPc = "writing"
    /\ written' = Append(written, writerMsg)
    /\ writerMsg' = NoMsg
    /\ writerPc' = "select"
    /\ NothingObserved
    /\ UNCHANGED << connVars, cancelled, oneshot, readerVars, streamEnded, produced,
                    socket_messages, socketRxAlive, chat_messages, chatRxAlive,
                    writerErr, consumerVars >>

\* A writer that logs a failed write and goes on with the next message.
WriterWriteFailSkips ==
    /\ writerPc = "writing"
    /\ writerMsg' = NoMsg
    /\ writerPc' = "select"
    /\ NothingObserved
    /\ UNCHANGED << connVars, cancelled, oneshot, readerVars, streamEnded, produced,
                    socket_messages, socketRxAlive, chat_messages, chatRxAlive,
                    writerErr, written, consumerVars >>

\* Line 311 and 296: writer.send(...).await? fails with a transport error.
WriterWriteFail ==
    /\ writerPc = "writing"
    /\ writerMsg' = NoMsg
    /\ writerErr' = ErrItem("WebSocket", "")
    /\ writerPc' = "err_send"
    /\ NothingObserved
    /\ UNCHANGED << connVars, cancelled, oneshot, readerVars, streamEnded, produced,
                    socket_messages, socketRxAlive, chat_messages, chatRxAlive,
                    written, consumerVars >>

\* Lines 279-283: chat_messages_sender.send(Err(err)).await.ok(), then break.
WriterErrSend ==
    /\ writerPc = "err_send"
    /\ \/ /\ chatRxAlive
          /\ Len(chat_messages) < CHAT_MESSAGES_BUFFER
          /\ chat_messages' = Append(chat_messages, writerErr)
       \/ /\ ~chatRxAlive
          /\ UNCHANGED chat_messages
    /\ writerPc' = "done"
    /\ writerErr' = NoErr
    /\ WriterDropped
    /\ NothingObserved
    /\ UNCHANGED << connVars, oneshot, readerVars, streamEnded, produced,
                    chatRxAlive, writerMsg, written, consumerVars >>

\* ---------------------------------------------------------------- consumer
\* poll_next (lines 87-92): messages.poll_recv yields the oldest item, or None
\* when the queue is empty and every sender is gone; otherwise it is pending.
ConsumerNext ==
    /\ handle = "live"
    /\ \/ /\ chat_messages # <<>>
          /\ received' = Append(received, Head(chat_messages))
          /\ chat_messages' = Tail(chat_messages)
          /\ UNCHANGED sawNone
       \/ /\ chat_messages = <<>>
          /\ ~ChatSendersAlive
          /\ sawNone' = TRUE
          /\ UNCHANGED << received, chat_messages >>
    /\ NothingObserved
    /\ UNCHANGED << connVars, cancelled, oneshot, readerVars, streamEnded, produced,
                    socket_messages, socketRxAlive, chatRxAlive, writerVars, written,
                    handle >>

\* A failure has been raised by an actor and not yet reported: the Err the
\* reader's or the writer's task is about to send (lines 151-154, 280-283).
FailurePending ==
    \/ readerErr # NoErr
    \/ writerErr # NoErr

\* The token is being cancelled by the consumer, first, and before any failure
\* (an actor that stopped, for any reason, has cancelled the token itself).
CancelsCleanly ==
    /\ countCloses
    /\ ~cancelled
    /\ ~FailurePending

\* A close that also reports the closing to the consumer, once per call.
ConsumerCloseReports ==
    /\ handle = "live"
    /\ countCloses => closeCalls < MaxCloses
    /\ cancelled' = TRUE
    /\ chat_messages' = (IF Len(chat_messages) < CHAT_MESSAGES_BUFFER
                         THEN Append(chat_messages, ErrItem("SocketClosed", ""))
                         ELSE chat_messages)
    /\ closeCalls' = (IF countCloses THEN closeCalls + 1 ELSE closeCalls)
    /\ cleanCancel' = (cleanCancel \/ CancelsCleanly)
    /\ NothingHandled
    /\ UNCHANGED sleepLeft
    /\ UNCHANGED << connVars, oneshot, readerVars, streamEnded, produced,
                    socket_messages, socketRxAlive, chatRxAlive,
                    writerVars, written, consumerVars, countCloses >>

\* close (lines 79-81): cancel the token.
ConsumerClose ==
    /\ handle = "live"
    /\ countCloses => closeCalls < MaxCloses
    /\ cancelled' = TRUE
    /\ closeCalls' = (IF countCloses THEN closeCalls + 1 ELSE closeCalls)
    /\ cleanCancel' = (cleanCancel \/ CancelsCleanly)
    /\ NothingHandled
    /\ UNCHANGED sleepLeft
    /\ UNCHANGED << connVars, oneshot, readerVars, streamEnded, produced,
                    socket_messages, socketRxAlive, chat_messages, chatRxAlive,
                    writerVars, written, consumerVars, countCloses >>

\* A drop that cancels but leaves the event receiver alive elsewhere.
ConsumerDropKeepsReceiver ==
    /\ handle = "live"
    /\ handle' = "dropped"
    /\ cancelled' = TRUE
    /\ cleanCancel' = (cleanCancel \/ CancelsCleanly)
    /\ NothingHandled
    /\ UNCHANGED sleepLeft
    /\ UNCHANGED << connVars, oneshot, readerVars, streamEnded, produced,
                    socket_messages, socketRxAlive, chat_messages, chatRxAlive,
                    writerVars, written, received, sawNone, countCloses,
                    closeCalls >>

\* A handle without the Drop implementation: only its fields are dropped.
ConsumerDropNoClose ==
    /\ handle = "live"
    /\ handle' = "dropped"
    /\ chatRxAlive' = FALSE
    /\ chat_messages' = <<>>
    /\ NothingObserved
    /\ UNCHANGED << connVars, cancelled, oneshot, readerVars, streamEnded, produced,
                    socket_messages, socketRxAlive, writerVars, written, received,
                    sawNone >>

\* Drop for ChatMessageStream (lines 95-99): close(), then the event receiver
\* is dropped with whatever it still buffers.
ConsumerDrop ==
    /\ handle = "live"
    /\ handle' = "dropped"
    /\ cancelled' = TRUE
    /\ chatRxAlive' = FALSE
    /\ chat_messages' = <<>>
    /\ cleanCancel' = (cleanCancel \/ CancelsCleanly)
    /\ NothingHandled
    /\ UNCHANGED sleepLeft
    /\ UNCHANGED << connVars, oneshot, readerVars, streamEnded, produced,
                    socket_messages, socketRxAlive, writerVars, written, received,
                    sawNone, countCloses, closeCalls >>

\* ----------------------------------------------------------- specification
ConnectStep ==
    \/ ConnectAsyncFail
    \/ ConnectOpen
    \/ SendAuthOk
    \/ SendAuthFail
    \/ AwaitAuthOk
    \/ AwaitAuthClosed

ReaderStep ==
    \/ ReaderCancelled
    \/ ReaderSleep
    \/ ReaderPingSend
    \/ \E f \in Frames : ReaderRecv(f)
    \/ ReaderChatSend
    \/ ReaderErrSend

WriterStep ==
    \/ WriterCancelled
    \/ WriterRecv
    \/ WriterWriteOk
    \/ WriterWriteFail
    \/ WriterErrSend

ConsumerStep ==
    \/ ConsumerNext
    \/ ConsumerClose
    \/ ConsumerDrop

Next ==
    \/ ConnectStep
    \/ ReaderStep
    \/ WriterStep
    \/ ConsumerStep
    \/ PeerEndStream

Spec == Init /\ [][Next]_vars

SpecObserved == InitObserved /\ [][Next]_vars

SpecCloses == InitCloses /\ [][Next]_vars

\* What the runtime guarantees: a spawned task is polled until it completes,
\* select! (lines 162, 291) picks at random among its ready branches, so a
\* branch that stays ready is taken, and an await that can complete does.
\* Nothing is assumed of the consumer or of the peer.
Fairness ==
    /\ WF_vars(ConnectStep)
    /\ SF_vars(ReaderCancelled)
    /\ WF_vars(ReaderPingSend)
    /\ WF_vars(ReaderChatSend)
    /\ WF_vars(ReaderErrSend)
    /\ SF_vars(WriterCancelled)
    /\ WF_vars(WriterRecv)
    /\ WF_vars(WriterWriteOk \/ WriterWriteFail)
    /\ WF_vars(WriterErrSend)

FairSpec == Init /\ [][Next]_vars /\ Fairness

FairSpecCloses == InitCloses /\ [][Next]_vars /\ Fairness

SpecTimed == InitTimed /\ [][Next]_vars

\* Time passes, and a sleep that has ended is taken by the select!.
FairSpecTimed ==
    /\ InitTimed
    /\ [][Next]_vars
    /\ Fairness
    /\ WF_vars(SleepElapses)
    /\ SF_vars(ReaderTick)

\* ------------------------------------------------------------------ claims
\* The frame decodes to a Response carrying this nonce.
IsResponse(f, nonce) ==
    /\ f.kind \in {"Text", "Binary"}
    /\ Decode(f.payload).type = "Response"
    /\ Decode(f.payload).nonce = nonce

\* The nonce carried by the Auth message that connect wrote.
SentAuthNonce == written[1].nonce

\* The reader's task has ended and the handshake signal never got a value.
ReaderStoppedBeforeAck ==
    /\ readerPc \in {"done", "panicked"}
    /\ oneshot # "value"

\* C1: connect returns Ok only after it wrote the Auth message and the reader
\* fulfilled the handshake signal, the signal is fulfilled only by a step in
\* which the reader takes a Response whose nonce is the Auth message's nonce,
\* and a Response with another nonce changes neither the signal nor the
\* result of connect.
C1_OkOnlyAfterMatchingResponse ==
    /\ [](connResult = "Ok" =>
            /\ oneshot = "value"
            /\ written # <<>>
            /\ written[1].type = "Auth"
            /\ SentAuthNonce = AUTH_NONCE)
    /\ [][(oneshot' = "value" /\ oneshot # "value") =>
            \E f \in Frames : IsResponse(f, AUTH_NONCE) /\ ReaderRecv(f)]_vars
    /\ [][\A f \in Frames :
            (ReaderRecv(f) /\ f.kind \in {"Text", "Binary"}
               /\ Decode(f.payload).type = "Response"
               /\ Decode(f.payload).nonce # AUTH_NONCE)
            => (oneshot' = oneshot /\ connResult' = connResult /\ connPc' = connPc)]_vars

\* C1 witness: connect has returned Ok after the handshake.
C1_Witness ==
    /\ connResult = "Ok"
    /\ oneshot = "value"
    /\ handle = "live"

\* C2 as stated: whenever the reader has stopped before a matching AuthAck and
\* connect has returned, connect returned SocketClosed.
C2_Original ==
    (ReaderStoppedBeforeAck /\ connPc = "returned") => connResult = "SocketClosed"

\* C2 amended: when the reader has stopped before a matching AuthAck, connect
\* has not returned Ok, and if it has returned after writing the Auth message
\* it returned SocketClosed (a failed write of Auth returns WebSocket).
C2_StoppedReaderNeverOk ==
    ReaderStoppedBeforeAck =>
        /\ connResult # "Ok"
        /\ (connPc = "returned" /\ written # <<>>) => connResult = "SocketClosed"
        /\ (connPc = "returned" /\ written = <<>>) => connResult = "WebSocket"

\* C2 witness: the reader stopped without an AuthAck and connect, which had
\* written Auth, returned SocketClosed.
C2_Witness ==
    /\ ReaderStoppedBeforeAck
    /\ written # <<>>
    /\ connResult = "SocketClosed"

\* C3 as stated, in the form a finite run refutes: as long as connect has not
\* returned, connect or the reader can take a step (so the peer's AuthAck or
\* close, whenever it arrives, is taken and connect returns).  The reader's
\* tick counter is below the bound of the model, so no bound disables a step.
C3_ConnectNeverStuck ==
    (connPc # "returned" /\ ping.iteration < MaxTicks /\ ~streamEnded)
        => ENABLED (ConnectStep \/ ReaderStep)

\* This step is a heartbeat tick: the sent counter was incremented.
IsTick == ping'.iteration = ping.iteration + 1

\* This step raises PingTimeout in the reader.
RaisesPingTimeout ==
    /\ readerErr'.err = "PingTimeout"
    /\ readerErr.err # "PingTimeout"

\* C4 as stated: PingTimeout is raised only by a tick, and exactly by the
\* ticks with iteration - acknowledged > 2 after the increment; every other
\* tick goes on to enqueue a Ping for the new iteration and does not fail.
C4_Original ==
    [][/\ RaisesPingTimeout =>
            (IsTick /\ ping'.iteration - ping'.acknowledged > MISSED_PONGS)
       /\ (IsTick /\ ~(ping'.iteration - ping'.acknowledged > MISSED_PONGS)) =>
            (readerPc' = "ping_send" /\ readerErr' = NoErr)]_vars

\* The Pong the reader took in the latest step, if it took one.
HandledPong == Decode(handled.payload)

HandledIsPong ==
    /\ handled.kind \in {"Text", "Binary"}
    /\ HandledPong.type = "Pong"

\* C5: a step in which the reader takes a Pong whose nonce parses to a counter
\* not greater than the acknowledged counter leaves acknowledged and interval
\* as they were, and the reader continues.
C5_StalePongIgnored ==
    [][(HandledIsPong' /\ ParseU64(HandledPong'.nonce).ok
          /\ ParseU64(HandledPong'.nonce).v <= ping.acknowledged)
        => /\ ping'.acknowledged = ping.acknowledged
           /\ ping'.interval = ping.interval
           /\ readerPc' = "select"]_vars

\* C5 witness: the reader has just taken a Pong for a counter below the
\* acknowledged one, advising a gap it did not adopt.
C5_Witness ==
    /\ HandledIsPong
    /\ ParseU64(HandledPong.nonce).ok
    /\ ParseU64(HandledPong.nonce).v < ping.acknowledged
    /\ HandledPong.gap # ping.interval
    /\ readerPc = "select"

\* C6: a step in which the reader takes a Pong whose nonce parses to a counter
\* greater than the acknowledged counter sets acknowledged to that counter and
\* the interval to the Pong's gap; until then the interval is the default.
C6_FreshPongAdopted ==
    /\ [][(HandledIsPong' /\ ParseU64(HandledPong'.nonce).ok
             /\ ParseU64(HandledPong'.nonce).v > ping.acknowledged)
           => /\ ping'.acknowledged = ParseU64(HandledPong'.nonce).v
              /\ ping'.interval = HandledPong'.gap
              /\ readerPc' = "select"]_vars
    /\ [](ping.acknowledged = 0 => ping.interval = DEFAULT_PING_INTERVAL)

\* C6 witness: the reader has just taken a fresh Pong for a counter above 1
\* that advised a gap of 20 seconds, and holds that counter and that gap.
C6_Witness ==
    /\ HandledIsPong
    /\ ParseU64(HandledPong.nonce).ok
    /\ ParseU64(HandledPong.nonce).v = ping.acknowledged
    /\ ping.acknowledged > 1
    /\ ping.interval = HandledPong.gap
    /\ ping.interval = 20

\* C7: a step in which the reader takes a Pong whose nonce does not parse
\* leaves acknowledged, interval and the event queue as they were, raises no
\* error, and the reader continues.
C7_UnparsablePongSkipped ==
    [][(HandledIsPong' /\ ~ParseU64(HandledPong'.nonce).ok)
        => /\ ping' = ping
           /\ readerPc' = "select"
           /\ readerErr' = NoErr
           /\ chat_messages' = chat_messages
           /\ cancelled' = cancelled]_vars

\* C7 witness: the reader has just taken the Pong with nonce "-2" after an
\* acknowledged Pong, and continues.
C7_Witness ==
    /\ HandledIsPong
    /\ HandledPong.nonce = <<"-", "2">>
    /\ ping.acknowledged > 0
    /\ readerPc = "select"

RECURSIVE OkChats(_)
\* The chat events among the items, in order.
OkChats(items) ==
    IF items = <<>> THEN <<>>
    ELSE IF Head(items).ok THEN <<Head(items).chat>> \o OkChats(Tail(items))
         ELSE OkChats(Tail(items))

RECURSIVE ErrCount(_)
\* The number of Err items among the items.
ErrCount(items) ==
    IF items = <<>> THEN 0
    ELSE (IF Head(items).ok THEN 0 ELSE 1) + ErrCount(Tail(items))

\* C8: while the event receiver exists, the chat events the consumer got,
\* then those in the event queue, then the rest of the batch being delivered
\* are exactly the events of the CHAT frames taken, in arrival order.
C8_ChatsInOrder ==
    chatRxAlive =>
        OkChats(received \o chat_messages) \o batch = [i \in 1..produced |-> i]

\* C8 witness: the consumer got three chat events, which took two frames.
C8_Witness ==
    /\ handle = "live"
    /\ Len(OkChats(received)) >= 3
    /\ batch = <<>>

\* C9 as stated: at most one Err item is ever put on the event queue.
C9_Original == ErrCount(received \o chat_messages) <= 1

\* C10 as stated, for chat events: no chat event is received after an Err.
C10_Original ==
    \A i \in 1..Len(received) :
        ~received[i].ok => \A j \in (i + 1)..Len(received) : ~received[j].ok

\* The items of the event sequence so far: those the consumer got, then those
\* still in the event queue.
EventSequence == received \o chat_messages

\* C11 as stated: the SocketClosed error of a close frame ends the event
\* sequence, no item follows it.
C11_Original ==
    \A i \in 1..Len(EventSequence) :
        EventSequence[i].err = "SocketClosed" => i = Len(EventSequence)

\* Everything but the count of the calls of close().
StateButCloseCalls ==
    << connVars, cancelled, oneshot, readerVars, streamEnded, produced,
       socket_messages, socketRxAlive, chat_messages, chatRxAlive, writerVars,
       written, consumerVars, cleanCancel, sleepLeft >>

\* C12: a call of close() after the first changes nothing, and a drop of the
\* handle after a close() leaves the token as it was, cancelled, puts no item
\* on the event queue and touches neither actor.
C12_CloseIdempotent ==
    [][ /\ (closeCalls >= 1 /\ closeCalls' > closeCalls) =>
              UNCHANGED StateButCloseCalls
        /\ closeCalls' >= 1 => cancelled'
        /\ (closeCalls >= 1 /\ handle = "live" /\ handle' = "dropped") =>
              /\ chat_messages' = <<>>
              /\ UNCHANGED << cancelled, readerVars, writerVars, socket_messages,
                              socketRxAlive, written, received, sawNone >> ]_vars

\* C12 witness: close() was called twice and the handle then dropped.
C12_Witness ==
    /\ closeCalls = 2
    /\ handle = "dropped"
    /\ cancelled

\* C13: once the handle is dropped the token is cancelled, whether or not
\* close() was called before.
C13_DropCancels == handle = "dropped" => cancelled

\* C13 witness: the handle was dropped with no call of close() and while both
\* actors were running, so nothing but the drop has cancelled the token.
C13_Witness ==
    /\ handle = "dropped"
    /\ closeCalls = 0
    /\ readerPc = "select"
    /\ writerPc = "select"

\* C14 as stated: once close() has been called, next() hands the consumer no
\* further item, neither a chat event nor an error.
C14_Original == [][closeCalls >= 1 => received' = received]_vars

\* C15 as stated: when the consumer cancels (close() or drop) and no failure
\* has occurred before, no Err item is ever put on the event queue.
C15_Original == cleanCancel => ErrCount(EventSequence) = 0

\* Neither actor's task is running any more.
BothStopped == ~ReaderAlive /\ ~WriterAlive

\* C16: after the handle is dropped both actors eventually terminate, in
\* every interleaving.
C16_DropStopsActors == (handle = "dropped") ~> BothStopped

\* C16 witness: the handle is dropped and both actors have terminated, the
\* reader having started a heartbeat tick.
C16_Witness ==
    /\ handle = "dropped"
    /\ BothStopped
    /\ ping.iteration >= 2

\* One of the two actors' tasks has ended: returned, failed or panicked.
AnActorStopped ==
    \/ readerPc \in {"done", "panicked"}
    \/ writerPc = "done"

\* C17 as stated: once either actor has stopped, for any reason, the token is
\* cancelled and the other actor eventually stops too.
C17_Original ==
    /\ [](AnActorStopped => cancelled)
    /\ AnActorStopped ~> BothStopped

\* What the writer has written: the transport's writes after the Auth message,
\* which connect writes itself (line 56).
WrittenByWriter ==
    IF written # <<>> /\ Head(written).type = "Auth" THEN Tail(written) ELSE written

\* C18: the messages enqueued are the Pings of ticks 1, 2, ... in that order;
\* what the writer has written is a prefix of them, each once, and the message
\* it is writing is the next one.
C18_WrittenInEnqueueOrder ==
    /\ Len(WrittenByWriter) <= ping.iteration
    /\ \A i \in 1..Len(WrittenByWriter) : WrittenByWriter[i] = PingMessage(i)
    /\ writerPc = "writing" => writerMsg = PingMessage(Len(WrittenByWriter) + 1)

\* C18 witness: the writer has written the Pings of two ticks.
C18_Witness ==
    /\ Len(WrittenByWriter) = 2
    /\ writerPc = "select"

\* A text or binary frame whose payload is no ChatSocketMessage.
Undecodable(f) ==
    /\ f.kind \in {"Text", "Binary"}
    /\ Decode(f.payload) = DecodeError

\* C19: taking an undecodable text or binary frame raises the Serde error and
\* nothing else; the reader's next step puts that error on the event queue,
\* unless the receiver is gone, and ends the reader; a payload fares the same
\* as a text and as a binary frame.
C19_UndecodableIsFatal ==
    /\ \A p \in Payloads :
          FrameOutcome(Frame("Binary", p, "")) = FrameOutcome(Frame("Text", p, ""))
    /\ [][ /\ Undecodable(handled') =>
                /\ readerPc' = "err_send"
                /\ readerErr' = ErrItem("Serde", "")
                /\ UNCHANGED << ping, batch, authSender, oneshot, chat_messages >>
           /\ (readerErr.err = "Serde" /\ readerPc = "err_send"
                   /\ readerPc' # "err_send") =>
                /\ readerPc' = "done"
                /\ cancelled'
                /\ (chatRxAlive => chat_messages' = Append(chat_messages, readerErr))
          ]_vars

\* C19 witness: the reader took a binary frame with an unknown tag and is
\* about to report the Serde error.
C19_Witness ==
    /\ handled.kind = "Binary"
    /\ Undecodable(handled)
    /\ readerPc = "err_send"
    /\ readerErr = ErrItem("Serde", "")
    /\ handle = "live"

\* C20: next() has returned None only with both actors terminated and the
\* event queue empty, and from then on it returns nothing else: no item is
\* received after a None.
C20_NoneIsFinal ==
    /\ [](sawNone => BothStopped /\ chat_messages = <<>>)
    /\ [][sawNone => sawNone' /\ received' = received]_vars

\* C20 witness: the consumer got an item and then None.
C20_Witness ==
    /\ sawNone
    /\ handle = "live"
    /\ received # <<>>

\* C21 as stated: after close() on a live handle both actors eventually stop,
\* whatever the consumer does with the handle afterwards.
C21_Original == (closeCalls >= 1) ~> BothStopped

\* C22 as stated: once the transport's frame stream has ended the reader
\* performs no further heartbeat tick and raises no error.
C22_Original ==
    [][streamEnded => (~IsTick /\ readerErr' = readerErr)]_vars

\* This step is the reader taking a frame and returning to its select! with
\* the heartbeat interval as it was.
TakesFrameAndContinues ==
    /\ \E f \in Frames : ReaderRecv(f)
    /\ readerPc' = "select"
    /\ ping'.interval = ping.interval

\* C24 as stated: a frame that arrives does not postpone the next heartbeat
\* tick, the time left to it is what it was before the frame.
C24_Original == [][TakesFrameAndContinues => sleepLeft' = sleepLeft]_vars

\* C23 as stated, in its part that the reader terminates: if the consumer
\* keeps reading, then from the handshake on the reader eventually stops (or
\* has made all the ticks explored), the peer's acknowledgements ending by
\* themselves since it can acknowledge only so many ticks.
C23_Original ==
    ([]<>(chat_messages = <<>>)) =>
        ((handle = "live") ~> (~ReaderAlive \/ ping.iteration >= MaxTicks))

\* C25: the writer's task exists only once connect has returned Ok on the
\* fulfilled handshake signal; the first frame written is the Auth message and
\* a second frame (a Ping) is written only after the matching Response; after
\* a failed connect there is no writer.
C25_WriterOnlyAfterHandshake ==
    /\ writerPc # "unspawned" => (connResult = "Ok" /\ oneshot = "value")
    /\ written # <<>> => Head(written).type = "Auth"
    /\ Len(written) >= 2 => (oneshot = "value" /\ authSender = "None")
    /\ connResult \in {"WebSocket", "SocketClosed"} => writerPc = "unspawned"

\* C25 witness: the handshake succeeded and the writer has written a Ping.
C25_Witness ==
    /\ connResult = "Ok"
    /\ Len(written) = 2
    /\ written[2].type = "Ping"
    /\ writerPc = "select"

\* The frame the reader took in the latest step is a Response.
HandledResponse ==
    /\ handled.kind \in {"Text", "Binary"}
    /\ Decode(handled.payload).type = "Response"

C27_WriteFailureIsFinal ==
    [][ /\ (writerPc = "writing" /\ writerPc' # "writing" /\ written' = written) =>
              /\ writerPc' = "err_send"
              /\ writerErr' = ErrItem("WebSocket", "")
              /\ UNCHANGED << chat_messages, socket_messages >>
        /\ (writerPc = "err_send" /\ writerPc' # "err_send") =>
              /\ writerPc' = "done"
              /\ cancelled'
              /\ (chatRxAlive => chat_messages' = Append(chat_messages, writerErr))
        /\ writerPc \in {"err_send", "done"} =>
              /\ written' = written
              /\ writerPc' \in {"err_send", "done"} ]_vars

\* C27 witness: the writer's write failed and its error is the one Err of the
\* event sequence, the reader not having failed.
C27_Witness ==
    /\ writerPc = "done"
    /\ readerPc = "select"
    /\ ErrCount(EventSequence) = 1
    /\ handle = "live"

\* The message the writer has taken from the command queue and not written.
InWritersHands == IF writerPc = "writing" THEN << writerMsg >> ELSE << >>

\* The Pings of the ticks 1..n, in order.
PingsUpTo(n) == [i \in 1..n |-> PingMessage(i)]

\* C28: the command queue never holds more than one message and the event
\* queue never more than its capacity; while the reader runs and the event
\* receiver exists every chat decoded is in the event sequence or waits in the
\* batch being delivered; and while the reader has not failed and the writer
\* side is intact the Ping of every tick has been enqueued, the one of the
\* tick in progress waiting for room.
C28_BoundedQueuesNoDrop ==
    /\ Len(socket_messages) <= SOCKET_MESSAGES_BUFFER
    /\ Len(chat_messages) <= CHAT_MESSAGES_BUFFER
    /\ (ReaderAlive /\ chatRxAlive) =>
          /\ OkChats(EventSequence) \o batch = [i \in 1..produced |-> i]
          /\ batch # <<>> => readerPc = "chat_send"
    /\ (readerPc \in {"select", "ping_send", "chat_send"} /\ socketRxAlive
            /\ writerPc \in {"unspawned", "select", "writing"}) =>
          WrittenByWriter \o InWritersHands \o socket_messages =
              PingsUpTo(IF readerPc = "ping_send"
                        THEN ping.iteration - 1 ELSE ping.iteration)

\* C28 witness: the reader waits with the Ping of the third tick for room in
\* the full command queue, the writer being busy with the first.
C28_Witness ==
    /\ readerPc = "ping_send"
    /\ ping.iteration = 3
    /\ Len(socket_messages) = SOCKET_MESSAGES_BUFFER
    /\ socketRxAlive
    /\ writerPc = "writing"

\* C29: a reader that made a tick without timing out and finds the command
\* queue's receiver gone ends its task there: the token is cancelled, no error
\* is raised and nothing is put on the event queue.
C29_ClosedCommandQueueStops ==
    [][(readerPc = "ping_send" /\ ~socketRxAlive /\ readerPc' # "ping_send") =>
          /\ readerPc' = "done"
          /\ cancelled'
          /\ readerErr' = NoErr
          /\ UNCHANGED << chat_messages, socket_messages >>]_vars

\* C29 witness: the writer has ended, dropping the command queue's receiver,
\* and the reader, after a tick, is at its send of the Ping.
C29_Witness ==
    /\ readerPc = "ping_send"
    /\ ~socketRxAlive
    /\ writerPc = "done"
    /\ handle = "live"

\* C30: a reader delivering a batch that finds the event queue's receiver
\* gone ends its task at that event: the rest of the batch is dropped, no
\* error is raised, nothing is put on the event queue and the token is
\* cancelled.
C30_ClosedEventQueueStops ==
    [][(readerPc = "chat_send" /\ ~chatRxAlive /\ readerPc' # "chat_send") =>
          /\ readerPc' = "done"
          /\ cancelled'
          /\ readerErr' = NoErr
          /\ batch' = <<>>
          /\ UNCHANGED << chat_messages, produced >>]_vars

\* C30 witness: the consumer dropped the handle while the reader was about to
\* deliver a batch of two chats.
C30_Witness ==
    /\ readerPc = "chat_send"
    /\ Len(batch) = 2
    /\ handle = "dropped"
    /\ ~chatRxAlive

\* C31: the sent counter changes only on a heartbeat tick and then by exactly
\* +1, the acknowledged counter never decreases, and every Ping put on the
\* command queue carries, in decimal, the sent counter after its increment,
\* so that the nonces on one connection are "1", "2", "3", ... in this order.
C31_CountersAndNonces ==
    [][ /\ ping'.iteration # ping.iteration =>
              /\ readerPc = "select"
              /\ readerPc' \in {"ping_send", "err_send", "panicked"}
              /\ ping'.iteration = ping.iteration + 1
        /\ ping'.acknowledged >= ping.acknowledged
        /\ Len(socket_messages') > Len(socket_messages) =>
              /\ readerPc = "ping_send"
              /\ ping' = ping
              /\ socket_messages'[Len(socket_messages')].type = "Ping"
              /\ ParseU64(socket_messages'[Len(socket_messages')].nonce)
                    = [ok |-> TRUE, v |-> ping.iteration]
      ]_vars

\* C31 witness: the third tick has happened after an acknowledged Pong, and
\* its Ping, with the nonce "3", is on the command queue.
C31_Witness ==
    /\ ping.iteration = 3
    /\ ping.acknowledged > 0
    /\ socket_messages # <<>>
    /\ socket_messages[Len(socket_messages)].nonce = <<"3">>

\* C32 as stated: whatever frame the reader takes, it continues, stops or
\* stops with an error on the event queue; its task never ends in a panic.
C32_Original == [][(\E f \in Frames : ReaderRecv(f)) => readerPc' # "panicked"]_vars

\* C33 as stated: the acknowledged counter never exceeds the sent counter.
C33_Original == ping.acknowledged <= ping.iteration

\* C34 as stated: once connect has returned an error, the reader it may have
\* spawned eventually stops.
C34_Original == (connResult \in {"WebSocket", "SocketClosed"}) ~> ~ReaderAlive
====
